---- MODULE Spec2Model ----
(***************************************************************************)
(* LocalDatabase (packages/core/local-storage/src/legacy/local-database.ts) *)
(* The in-memory index {list, secret}, the locked flag and the index file   *)
(* on disk, with one action per public method.  Every method body is        *)
(* synchronous except init(), whose callers await it before using the       *)
(* store, so each method is one atomic step.  The filesystem is the         *)
(* environment: each call draws the outcome of its read, mkdir and write,   *)
(* and an operator may edit, truncate or delete the file between calls.     *)
(***************************************************************************)
EXTENDS Integers, Sequences, FiniteSets, TLC

VARIABLES
    data,         \* this.data: [list, secret]
    initialized,  \* this.data has been assigned by init()
    locked,       \* this.locked
    file,         \* the index file at this.path: [exists, text]
    dirExists,    \* Path.dirname(this.path) exists
    addCalls,     \* names passed to add() since init() loaded an empty list
    last,         \* the last call: what was called and what its caller saw
    held,         \* the array a caller of get() was handed and still holds
    config,       \* this.config: config_path, storage and the per-package specs
    handle,       \* what the last getPackageStorage(packageName) gave
    callers       \* the calls in progress, by caller, and who is on the stack

vars == <<data, initialized, locked, file, dirExists, addCalls, last, held, config, handle,
          callers>>

\* ---------------------------------------------------------------- bounds
MaxLen == 3      \* longest in-memory list
MaxCut == 1      \* longest prefix a failed write or a truncation leaves

Names == {"a", "b", "c"}
Secrets == {"", "s1"}

\* Lists an operator may put into the file by hand (duplicates included).
ExternalLists == {<<"b", "a">>, <<"a", "a">>}

\* ---------------------------------------------------------------- JSON text
\* The file text is a sequence of tokens: punctuation and quoted strings.
P(c) == [t |-> "punct", v |-> c]
S(s) == [t |-> "str", v |-> s]

\* Variant: only the list is serialized, the secret is written empty.
stringifyDropsSecret(d) ==
    <<P("{"), S("list"), P("[")>>
        \o [i \in 1..Len(d.list) |-> S(d.list[i])]
        \o <<P("]"), S("secret"), S(""), P("}")>>

\* JSON.stringify(this.data)
JSONstringify(d) ==
    <<P("{"), S("list"), P("[")>>
        \o [i \in 1..Len(d.list) |-> S(d.list[i])]
        \o <<P("]"), S("secret"), S(d.secret), P("}")>>

\* JSON.parse of a file text: whether it is a well-formed index ...
WellFormed(t) ==
    /\ Len(t) >= 7
    /\ t[1] = P("{")
    /\ t[2] = S("list")
    /\ t[3] = P("[")
    /\ \A i \in 4..(Len(t) - 4) : t[i].t = "str"
    /\ t[Len(t) - 3] = P("]")
    /\ t[Len(t) - 2] = S("secret")
    /\ t[Len(t) - 1].t = "str"
    /\ t[Len(t)] = P("}")

\* ... and the object it denotes.
JSONparse(t) ==
    [list   |-> [i \in 1..(Len(t) - 7) |-> t[3 + i].v],
     secret |-> t[Len(t) - 1].v]

emptyDatabase == [list |-> <<>>, secret |-> ""]

\* The first k tokens of a text (all of it when it is shorter).
Prefix(t, k) == SubSeq(t, 1, IF k < Len(t) THEN k ELSE Len(t))

NoFile == [exists |-> FALSE, text |-> <<>>]
FileOf(t) == [exists |-> TRUE, text |-> t]

\* ---------------------------------------------------------------- helpers
\* Array.prototype.indexOf: first index of x in s (1-based), 0 when absent.
indexOf(s, x) ==
    IF \E i \in 1..Len(s) : s[i] = x
    THEN CHOOSE i \in 1..Len(s) : s[i] = x /\ \A j \in 1..(i - 1) : s[j] # x
    ELSE 0

\* Array.prototype.splice(i, 1)
splice(s, i) == SubSeq(s, 1, i - 1) \o SubSeq(s, i + 1, Len(s))

\* The record of a call: the method and its argument, what the caller got
\* (res), what _sync returned (sync), how its mkdirSync ended (mk) and how far
\* it went (io), how the load of init ended (load), whether indexOf found the name (hit) and whether the
\* call is an add that repeats the add before it, name for name (again).
NoCall == [op |-> "none", arg |-> "-", res |-> "none", sync |-> "none",
           mk |-> "none", io |-> "none", load |-> "none", hit |-> FALSE, again |-> FALSE]

Call(op, arg, res, s, load, hit) ==
    [op |-> op, arg |-> arg, res |-> res, sync |-> s.res, mk |-> s.mk, io |-> s.io,
     load |-> load,
     hit |-> hit, again |-> (op = "add" /\ last.op = "add" /\ last.arg = arg)]

\* ---------------------------------------------------------------- load
\* loadPrivatePackages(path): read the file and parse it.
\* rf is the outcome of the read itself: "ok" or "EACCES".
loadPrivatePackages(f, rf) ==
    IF rf = "EACCES" THEN [status |-> "error", code |-> "EACCES", value |-> emptyDatabase]
    ELSE IF ~f.exists THEN [status |-> "error", code |-> "ENOENT", value |-> emptyDatabase]
    ELSE IF ~WellFormed(f.text) THEN [status |-> "error", code |-> "none", value |-> emptyDatabase]
    ELSE [status |-> "ok", code |-> "none", value |-> JSONparse(f.text)]

noSuchFile == "ENOENT"

\* Variant: a successful load clears the locked flag.
fetchClearsLock(lk, f, rf) ==
    LET r == loadPrivatePackages(f, rf) IN
    IF r.status = "ok"
    THEN [data |-> r.value, locked |-> FALSE, load |-> "ok"]
    ELSE IF r.code # noSuchFile
         THEN [data |-> emptyDatabase, locked |-> TRUE, load |-> "error"]
         ELSE [data |-> emptyDatabase, locked |-> lk, load |-> "missing"]

\* Variant: the error code is not looked at, a missing file locks the store too.
fetchLocksOnMissing(lk, f, rf) ==
    LET r == loadPrivatePackages(f, rf) IN
    IF r.status = "ok"
    THEN [data |-> r.value, locked |-> lk, load |-> "ok"]
    ELSE [data |-> emptyDatabase, locked |-> TRUE,
          load |-> IF r.code # noSuchFile THEN "error" ELSE "missing"]

\* _fetchLocalPackages(): the loaded data, the locked flag after it, and how
\* the load ended.
fetchLocalPackages(lk, f, rf) ==
    LET r == loadPrivatePackages(f, rf) IN
    IF r.status = "ok"
    THEN [data |-> r.value, locked |-> lk, load |-> "ok"]
    ELSE IF r.code # noSuchFile
         THEN [data |-> emptyDatabase, locked |-> TRUE, load |-> "error"]
         ELSE [data |-> emptyDatabase, locked |-> lk, load |-> "missing"]

\* ---------------------------------------------------------------- _sync
\* Variant: the locked flag is not consulted.
syncIgnoresLock(lk, d, f, dir, o) ==
    IF o.mk = "fail"
    THEN [res |-> "ok", io |-> "mkdirFailed", mk |-> "failed", file |-> f, dir |-> dir]
    ELSE IF o.wr = "ok"
    THEN [res |-> "ok", io |-> "wrote", mk |-> "ok",
          file |-> FileOf(JSONstringify(d)), dir |-> TRUE]
    ELSE IF o.wr = "failOpen"
    THEN [res |-> "writeErr", io |-> "writeFailed", mk |-> "ok", file |-> f, dir |-> TRUE]
    ELSE [res |-> "writeErr", io |-> "writeFailed", mk |-> "ok",
          file |-> FileOf(Prefix(JSONstringify(d), o.cut)), dir |-> TRUE]

\* Variant: the catch of the write returns null, as the catch of the mkdir does.
syncSwallowsWriteError(lk, d, f, dir, o) ==
    IF lk
    THEN [res |-> "locked", io |-> "none", mk |-> "none", file |-> f, dir |-> dir]
    ELSE IF o.mk = "fail"
    THEN [res |-> "ok", io |-> "mkdirFailed", mk |-> "failed", file |-> f, dir |-> dir]
    ELSE IF o.wr = "ok"
    THEN [res |-> "ok", io |-> "wrote", mk |-> "ok",
          file |-> FileOf(JSONstringify(d)), dir |-> TRUE]
    ELSE IF o.wr = "failOpen"
    THEN [res |-> "ok", io |-> "writeFailed", mk |-> "ok", file |-> f, dir |-> TRUE]
    ELSE [res |-> "ok", io |-> "writeFailed", mk |-> "ok",
          file |-> FileOf(Prefix(JSONstringify(d), o.cut)), dir |-> TRUE]

\* Variant: the catch of the mkdir returns the error instead of null.
syncSurfacesMkdirError(lk, d, f, dir, o) ==
    IF lk
    THEN [res |-> "locked", io |-> "none", mk |-> "none", file |-> f, dir |-> dir]
    ELSE IF o.mk = "fail"
    THEN [res |-> "mkdirErr", io |-> "mkdirFailed", mk |-> "failed", file |-> f, dir |-> dir]
    ELSE IF o.wr = "ok"
    THEN [res |-> "ok", io |-> "wrote", mk |-> "ok",
          file |-> FileOf(JSONstringify(d)), dir |-> TRUE]
    ELSE IF o.wr = "failOpen"
    THEN [res |-> "writeErr", io |-> "writeFailed", mk |-> "ok", file |-> f, dir |-> TRUE]
    ELSE [res |-> "writeErr", io |-> "writeFailed", mk |-> "ok",
          file |-> FileOf(Prefix(JSONstringify(d), o.cut)), dir |-> TRUE]

\* Variant: the catch of the mkdir does not return, the write is made next.
syncWritesAfterMkdirError(lk, d, f, dir, o) ==
    IF lk
    THEN [res |-> "locked", io |-> "none", mk |-> "none", file |-> f, dir |-> dir]
    ELSE IF o.wr = "ok"
    THEN [res |-> "ok", io |-> "wrote", mk |-> IF o.mk = "fail" THEN "failed" ELSE "ok",
          file |-> FileOf(JSONstringify(d)), dir |-> TRUE]
    ELSE IF o.wr = "failOpen"
    THEN [res |-> "writeErr", io |-> "writeFailed", mk |-> "ok", file |-> f, dir |-> TRUE]
    ELSE [res |-> "writeErr", io |-> "writeFailed", mk |-> "ok",
          file |-> FileOf(Prefix(JSONstringify(d), o.cut)), dir |-> TRUE]

\* _sync(): its return value, how far it went, and the filesystem after it.
\* o is what the filesystem does in this call: o.mk the outcome of mkdirSync
\* ("ok", "fail"), o.wr that of writeFileSync ("ok", "failOpen": nothing
\* written, "failPartial": the first o.cut tokens written).
sync(lk, d, f, dir, o) ==
    IF lk
    THEN [res |-> "locked", io |-> "none", mk |-> "none", file |-> f, dir |-> dir]
    ELSE IF o.mk = "fail"
    THEN [res |-> "ok", io |-> "mkdirFailed", mk |-> "failed", file |-> f, dir |-> dir]
    ELSE IF o.wr = "ok"
    THEN [res |-> "ok", io |-> "wrote", mk |-> "ok",
          file |-> FileOf(JSONstringify(d)), dir |-> TRUE]
    ELSE IF o.wr = "failOpen"
    THEN [res |-> "writeErr", io |-> "writeFailed", mk |-> "ok", file |-> f, dir |-> TRUE]
    ELSE [res |-> "writeErr", io |-> "writeFailed", mk |-> "ok",
          file |-> FileOf(Prefix(JSONstringify(d), o.cut)), dir |-> TRUE]

NoSync(f, dir) == [res |-> "none", io |-> "none", mk |-> "none", file |-> f, dir |-> dir]

\* What mkdirSync and writeFileSync may do in one call of _sync.
FsOutcomes ==
    {[mk |-> "fail", wr |-> "ok", cut |-> 0],
     [mk |-> "ok", wr |-> "ok", cut |-> 0],
     [mk |-> "ok", wr |-> "failOpen", cut |-> 0]}
    \cup {[mk |-> "ok", wr |-> "failPartial", cut |-> c] : c \in 0..MaxCut}

\* What the read of the index file may do in one call of init.
ReadOutcomes == {"ok", "EACCES"}

\* ---------------------------------------------------------------- paths
\* A path is its segments and whether it starts at the root; the empty
\* string is the relative path without segments.
Abs(segs) == [abs |-> TRUE, segs |-> segs]
Rel(segs) == [abs |-> FALSE, segs |-> segs]

\* process.cwd()
cwd == Abs(<<"srv">>)

\* One segment of Path.normalize: "." is dropped, ".." takes the segment
\* before it away (at the root it is dropped, at the start of a relative path
\* it is kept).
NormStep(abs, stack, seg) ==
    IF seg = "." THEN stack
    ELSE IF seg = ".."
    THEN IF Len(stack) > 0 /\ stack[Len(stack)] # ".."
         THEN SubSeq(stack, 1, Len(stack) - 1)
         ELSE IF abs THEN stack ELSE Append(stack, "..")
    ELSE Append(stack, seg)

RECURSIVE NormFrom(_, _, _)
NormFrom(abs, stack, rest) ==
    IF rest = <<>> THEN stack
    ELSE NormFrom(abs, NormStep(abs, stack, Head(rest)), Tail(rest))

\* Path.normalize
normalize(p) == [abs |-> p.abs, segs |-> NormFrom(p.abs, <<>>, p.segs)]

\* Path.join(a, b): empty arguments are skipped, the rest is put together and
\* normalized; an absolute b does not start over.
join(a, b) ==
    IF a = Rel(<<>>) THEN normalize(b)
    ELSE normalize([abs |-> a.abs, segs |-> a.segs \o b.segs])

\* Path.resolve(a, b): b alone when absolute, else under a, else under the
\* working directory.
resolve(a, b) ==
    IF b.abs THEN normalize(b)
    ELSE IF a.abs THEN normalize(Abs(a.segs \o b.segs))
    ELSE normalize(Abs(cwd.segs \o a.segs \o b.segs))

\* Path.dirname
dirname(p) ==
    IF Len(p.segs) > 1 THEN [abs |-> p.abs, segs |-> SubSeq(p.segs, 1, Len(p.segs) - 1)]
    ELSE IF p.abs THEN Abs(<<>>)
    ELSE Rel(<<".">>)

\* The package names asked for, as the path they are when joined.
PkgNames == {"left-pad", "@scope/pkg"}
NamePath(name) == IF name = "left-pad" THEN Rel(<<"left-pad">>) ELSE Rel(<<"@scope", "pkg">>)

\* config.storage: unset, or a path.
Unset == [set |-> FALSE, path |-> Rel(<<>>)]
Str(p) == [set |-> TRUE, path |-> p]

\* What config.getMatchedPackagesSpec(name) gives: nothing, a spec without
\* storage, or a spec with a storage string.
NoMatch == [match |-> FALSE, storage |-> Unset]
Match(st) == [match |-> TRUE, storage |-> st]

ConfigPaths ==
    {Rel(<<>>), Abs(<<"etc", "verdaccio", "config.yaml">>), Rel(<<"conf", "config.yaml">>)}
GlobalStorages ==
    {Unset, Str(Abs(<<"data", "storage">>)), Str(Rel(<<".", "storage">>)),
     Str(Rel(<<"..", "store">>))}
PackageSpecs ==
    {NoMatch, Match(Unset), Match(Str(Rel(<<"extra">>))), Match(Str(Rel(<<"..", "alt">>))),
     Match(Str(Abs(<<"mnt", "big">>)))}

Configs ==
    [config_path : ConfigPaths, storage : GlobalStorages, packages : [PkgNames -> PackageSpecs]]

DefaultConfig ==
    [config_path |-> Abs(<<"etc", "verdaccio", "config.yaml">>),
     storage |-> Str(Abs(<<"data", "storage">>)),
     packages |-> [n \in PkgNames |-> NoMatch]]

NoHandle == [name |-> "-", kind |-> "none", path |-> Rel(<<>>)]

\* Variant: the per-package storage is taken alone, without the global one.
localStoragePathOverrideAlone(cfg, storage) ==
    IF ~cfg.storage.set
    THEN [throws |-> TRUE, path |-> Rel(<<>>)]
    ELSE IF storage.set
    THEN [throws |-> FALSE, path |-> normalize(storage.path)]
    ELSE [throws |-> FALSE, path |-> cfg.storage.path]

\* _getLocalStoragePath(storage)
getLocalStoragePath(cfg, storage) ==
    IF ~cfg.storage.set
    THEN [throws |-> TRUE, path |-> Rel(<<>>)]
    ELSE IF storage.set
    THEN [throws |-> FALSE, path |-> join(cfg.storage.path, storage.path)]
    ELSE [throws |-> FALSE, path |-> cfg.storage.path]

\* getPackageStorage(packageName): the LocalDriver it returns, by its path,
\* or the error it throws.  (A packagePath that is no string cannot come out
\* of a string config.storage, so the return without a handle is not taken.)
packageStorage(cfg, packageName) ==
    LET packageAccess == cfg.packages[packageName]
        packagePath == getLocalStoragePath(
                           cfg, IF packageAccess.match THEN packageAccess.storage ELSE Unset)
    IN  IF packagePath.throws
        THEN [name |-> packageName, kind |-> "throws", path |-> Rel(<<>>)]
        ELSE [name |-> packageName, kind |-> "driver",
              path |-> join(resolve(dirname(cfg.config_path), packagePath.path),
                            NamePath(packageName))]

\* ---------------------------------------------------------------- get
\* What a caller of get() holds: nothing, the array this.data.list itself
\* ("alias"), or an array this.data no longer refers to ("detached", with the
\* value it keeps); taken is the value it had when get() handed it out.
NoHeld == [kind |-> "none", taken |-> <<>>, value |-> <<>>]

\* init() assigns a new object to this.data: an array handed out before is
\* no longer the store's list and keeps the value it has.
Detach(h, d) ==
    IF h.kind = "alias" THEN [h EXCEPT !.kind = "detached", !.value = d.list] ELSE h

\* Callers that issue mutating calls on their own, each call in two steps:
\* the change of this.data, then the _sync that ends the call.
Callers == {"c1", "c2"}

Idle == [op |-> "none", arg |-> "-", stage |-> "idle", hit |-> FALSE]

\* running is the caller whose call is on the stack ("none": the stack is
\* empty); by is the caller whose call ended last.
NoCalls == [pending |-> [c \in Callers |-> Idle], running |-> "none", by |-> "none"]

\* ---------------------------------------------------------------- actions
Init ==
    /\ data = emptyDatabase
    /\ initialized = FALSE
    /\ locked = FALSE
    /\ file = NoFile
    /\ dirExists \in BOOLEAN
    /\ addCalls = [valid |-> FALSE, names |-> <<>>]
    /\ last = NoCall
    /\ held = NoHeld
    /\ config = DefaultConfig
    /\ handle = NoHandle
    /\ callers = NoCalls

\* init()
init ==
    \E rf \in ReadOutcomes, o \in FsOutcomes :
        LET r == fetchLocalPackages(locked, file, rf)
            s == sync(r.locked, r.data, file, dirExists, o)
        IN  /\ data' = r.data
            /\ initialized' = TRUE
            /\ locked' = r.locked
            /\ file' = s.file
            /\ dirExists' = s.dir
            /\ addCalls' = [valid |-> r.data.list = <<>>, names |-> <<>>]
            /\ last' = Call("init", "-", "ok", s, r.load, FALSE)
            /\ held' = Detach(held, data)
            /\ UNCHANGED <<config, handle, callers>>

\* Variant: _sync runs before the secret is assigned.
setSecretPersistsFirst(secret) ==
    /\ initialized
    /\ \E o \in FsOutcomes :
        LET d == [data EXCEPT !.secret = secret]
            s == sync(locked, data, file, dirExists, o)
        IN  /\ data' = d
            /\ file' = s.file
            /\ dirExists' = s.dir
            /\ last' = Call("setSecret", secret, s.res, s, "none", FALSE)
    /\ UNCHANGED <<initialized, locked, addCalls, held, config, handle, callers>>

\* setSecret(secret)
setSecret(secret) ==
    /\ initialized
    /\ \E o \in FsOutcomes :
        LET d == [data EXCEPT !.secret = secret]
            s == sync(locked, d, file, dirExists, o)
        IN  /\ data' = d
            /\ file' = s.file
            /\ dirExists' = s.dir
            /\ last' = Call("setSecret", secret, s.res, s, "none", FALSE)
    /\ UNCHANGED <<initialized, locked, addCalls, held, config, handle, callers>>

\* Variant: _sync runs before the push.
addPersistsBeforePush(name) ==
    /\ initialized
    /\ indexOf(data.list, name) # 0 \/ Len(data.list) < MaxLen
    /\ \E o \in FsOutcomes :
        IF indexOf(data.list, name) = 0
        THEN LET d == [data EXCEPT !.list = Append(data.list, name)]
                 s == sync(locked, data, file, dirExists, o)
             IN  /\ data' = d
                 /\ file' = s.file
                 /\ dirExists' = s.dir
                 /\ last' = Call("add", name, s.res, s, "none", FALSE)
        ELSE /\ UNCHANGED <<data, file, dirExists>>
             /\ last' = Call("add", name, "ok", NoSync(file, dirExists), "none", TRUE)
    /\ addCalls' = IF addCalls.valid /\ indexOf(addCalls.names, name) = 0
                   THEN [addCalls EXCEPT !.names = Append(addCalls.names, name)]
                   ELSE [valid |-> FALSE, names |-> <<>>]
    /\ UNCHANGED <<initialized, locked, held, config, handle, callers>>

\* Variant: the name is pushed without looking for it first.
addAlwaysPushes(name) ==
    /\ initialized
    /\ Len(data.list) < MaxLen
    /\ \E o \in FsOutcomes :
        LET d == [data EXCEPT !.list = Append(data.list, name)]
            s == sync(locked, d, file, dirExists, o)
        IN  /\ data' = d
            /\ file' = s.file
            /\ dirExists' = s.dir
            /\ last' = Call("add", name, s.res, s, "none", FALSE)
    /\ addCalls' = IF addCalls.valid /\ indexOf(addCalls.names, name) = 0
                   THEN [addCalls EXCEPT !.names = Append(addCalls.names, name)]
                   ELSE [valid |-> FALSE, names |-> <<>>]
    /\ UNCHANGED <<initialized, locked, held, config, handle, callers>>

\* Variant: a new name is put at the front of the list (unshift for push).
addPrepends(name) ==
    /\ initialized
    /\ indexOf(data.list, name) # 0 \/ Len(data.list) < MaxLen
    /\ \E o \in FsOutcomes :
        IF indexOf(data.list, name) = 0
        THEN LET d == [data EXCEPT !.list = <<name>> \o data.list]
                 s == sync(locked, d, file, dirExists, o)
             IN  /\ data' = d
                 /\ file' = s.file
                 /\ dirExists' = s.dir
                 /\ last' = Call("add", name, s.res, s, "none", FALSE)
        ELSE /\ UNCHANGED <<data, file, dirExists>>
             /\ last' = Call("add", name, "ok", NoSync(file, dirExists), "none", TRUE)
    /\ addCalls' = IF addCalls.valid /\ indexOf(addCalls.names, name) = 0
                   THEN [addCalls EXCEPT !.names = Append(addCalls.names, name)]
                   ELSE [valid |-> FALSE, names |-> <<>>]
    /\ UNCHANGED <<initialized, locked, held, config, handle, callers>>

\* add(name, cb)
add(name) ==
    /\ initialized
    /\ indexOf(data.list, name) # 0 \/ Len(data.list) < MaxLen
    /\ \E o \in FsOutcomes :
        IF indexOf(data.list, name) = 0
        THEN LET d == [data EXCEPT !.list = Append(data.list, name)]
                 s == sync(locked, d, file, dirExists, o)
             IN  /\ data' = d
                 /\ file' = s.file
                 /\ dirExists' = s.dir
                 /\ last' = Call("add", name, s.res, s, "none", FALSE)
        ELSE /\ UNCHANGED <<data, file, dirExists>>
             /\ last' = Call("add", name, "ok", NoSync(file, dirExists), "none", TRUE)
    /\ addCalls' = IF addCalls.valid /\ indexOf(addCalls.names, name) = 0
                   THEN [addCalls EXCEPT !.names = Append(addCalls.names, name)]
                   ELSE [valid |-> FALSE, names |-> <<>>]
    /\ UNCHANGED <<initialized, locked, held, config, handle, callers>>

\* Variant: splice is called without the test for -1, and splice(-1, 1)
\* deletes the last element.
removeSplicesUnchecked(name) ==
    /\ initialized
    /\ \E o \in FsOutcomes :
        LET pkgName == indexOf(data.list, name)
            d == IF pkgName # 0
                 THEN [data EXCEPT !.list = splice(data.list, pkgName)]
                 ELSE [data EXCEPT !.list = SubSeq(data.list, 1, Len(data.list) - 1)]
            s == sync(locked, d, file, dirExists, o)
        IN  /\ data' = d
            /\ file' = s.file
            /\ dirExists' = s.dir
            /\ last' = Call("remove", name, s.res, s, "none", pkgName # 0)
    /\ addCalls' = [valid |-> FALSE, names |-> <<>>]
    /\ UNCHANGED <<initialized, locked, held, config, handle, callers>>

\* remove(name, cb)
remove(name) ==
    /\ initialized
    /\ \E o \in FsOutcomes :
        LET pkgName == indexOf(data.list, name)
            d == IF pkgName # 0
                 THEN [data EXCEPT !.list = splice(data.list, pkgName)]
                 ELSE data
            s == sync(locked, d, file, dirExists, o)
        IN  /\ data' = d
            /\ file' = s.file
            /\ dirExists' = s.dir
            /\ last' = Call("remove", name, s.res, s, "none", pkgName # 0)
    /\ addCalls' = [valid |-> FALSE, names |-> <<>>]
    /\ UNCHANGED <<initialized, locked, held, config, handle, callers>>

\* clean()
clean ==
    /\ initialized
    /\ \E o \in FsOutcomes :
        LET s == sync(locked, data, file, dirExists, o)
        IN  /\ file' = s.file
            /\ dirExists' = s.dir
            /\ last' = Call("clean", "-", "ok", s, "none", FALSE)
    /\ UNCHANGED <<data, initialized, locked, addCalls, held, config, handle, callers>>

\* get(cb): the list handed to the callback
get == data.list

\* A caller calls get(cb) and keeps what the callback was handed: list is
\* this.data.list, the store's own array, not a copy of it.
list ==
    /\ initialized
    /\ held' = [kind |-> "alias", taken |-> get, value |-> <<>>]
    /\ last' = [NoCall EXCEPT !.op = "get", !.res = "ok"]
    /\ UNCHANGED <<data, initialized, locked, file, dirExists, addCalls, config, handle, callers>>

\* The value of the array the caller holds.
heldValue == IF held.kind = "alias" THEN data.list ELSE held.value

\* getSecret()
getSecret == data.secret

\* ---------------------------------------------------------------- environment
EnvCall == [NoCall EXCEPT !.op = "env"]

\* An operator replaces the file with a hand-written index.
EnvWriteFile ==
    /\ \E l \in ExternalLists, sec \in Secrets :
          file' = FileOf(JSONstringify([list |-> l, secret |-> sec]))
    /\ dirExists' = TRUE
    /\ last' = EnvCall
    /\ UNCHANGED <<data, initialized, locked, addCalls, held, config, handle, callers>>

\* The file is truncated behind the store's back.
EnvTruncateFile ==
    /\ file.exists
    /\ \E cut \in 0..MaxCut : file' = FileOf(Prefix(file.text, cut))
    /\ last' = EnvCall
    /\ UNCHANGED <<data, initialized, locked, dirExists, addCalls, held, config, handle, callers>>

\* The file, or its whole directory, is deleted.
EnvDeleteFile ==
    /\ dirExists
    /\ file' = NoFile
    /\ dirExists' \in BOOLEAN
    /\ last' = EnvCall
    /\ UNCHANGED <<data, initialized, locked, addCalls, held, config, handle, callers>>

Next ==
    \/ init
    \/ \E secret \in Secrets : setSecret(secret)
    \/ \E name \in Names : add(name)
    \/ \E name \in Names : remove(name)
    \/ clean
    \/ EnvWriteFile
    \/ EnvTruncateFile
    \/ EnvDeleteFile

Spec == Init /\ [][Next]_vars

\* ---------------------------------------------------------------- healthy path
\* The store as the only writer of its file, on a filesystem whose mkdir and
\* write never fail.  The file found at start-up may be absent, hand-written
\* or unparseable.
InitHealthy ==
    /\ data = emptyDatabase
    /\ initialized = FALSE
    /\ locked = FALSE
    /\ \/ file = NoFile /\ dirExists \in BOOLEAN
       \/ /\ \E l \in ExternalLists \cup {<<>>}, sec \in Secrets :
                file = FileOf(JSONstringify([list |-> l, secret |-> sec]))
          /\ dirExists = TRUE
       \/ file = FileOf(<<>>) /\ dirExists = TRUE
    /\ addCalls = [valid |-> FALSE, names |-> <<>>]
    /\ last = NoCall
    /\ held = NoHeld
    /\ config = DefaultConfig
    /\ handle = NoHandle
    /\ callers = NoCalls

\* The mkdir and the write of the step, when made, succeeded.
HealthyStep == last'.mk # "failed" /\ last'.io # "writeFailed"

NextHealthy ==
    \/ init /\ HealthyStep
    \/ \E secret \in Secrets : setSecret(secret) /\ HealthyStep
    \/ \E name \in Names : add(name) /\ HealthyStep
    \/ \E name \in Names : remove(name) /\ HealthyStep
    \/ clean /\ HealthyStep

SpecHealthy == InitHealthy /\ [][NextHealthy]_vars

\* ---------------------------------------------------------------- callers of get
\* The store with a caller that keeps the array get() handed it: init() is
\* called once, at start-up, and the mkdir and the write never fail.
NextSnapshot ==
    \/ ~initialized /\ init /\ HealthyStep
    \/ \E name \in Names : add(name) /\ HealthyStep
    \/ \E name \in Names : remove(name) /\ HealthyStep
    \/ list

SpecSnapshot == Init /\ [][NextSnapshot]_vars

\* ---------------------------------------------------------------- storage paths
\* getPackageStorage(packageName)
getPackageStorage(packageName) ==
    /\ handle' = packageStorage(config, packageName)
    /\ UNCHANGED <<data, initialized, locked, file, dirExists, addCalls, last, held, config, callers>>

\* A store constructed with any configuration, asked for package storages.
InitStorage ==
    /\ data = emptyDatabase
    /\ initialized = FALSE
    /\ locked = FALSE
    /\ file = NoFile
    /\ dirExists = TRUE
    /\ addCalls = [valid |-> FALSE, names |-> <<>>]
    /\ last = NoCall
    /\ held = NoHeld
    /\ config \in Configs
    /\ handle = NoHandle
    /\ callers = NoCalls

NextStorage == \E packageName \in PkgNames : getPackageStorage(packageName)

SpecStorage == InitStorage /\ [][NextStorage]_vars

\* ---------------------------------------------------------------- callers
\* Variant: the write is an asynchronous one (fs.promises.writeFile, awaited),
\* so the call leaves the stack between the change and the write.
syncIsAwaited == FALSE

\* mkdirSync and writeFileSync block: nothing between the change of this.data
\* and the end of _sync gives the stack up.
syncIsBlocking == TRUE

\* A caller may take a step when the stack is empty or holds its own call.
CanRun(c) == callers.running \in {"none", c}

\* The part of a mutating call before _sync: the data after it, whether the
\* call goes on to _sync, and whether indexOf found the name.
mutate(op, arg, d) ==
    IF op = "setSecret"
    THEN [data |-> [d EXCEPT !.secret = arg], syncs |-> TRUE, hit |-> FALSE]
    ELSE IF op = "add"
    THEN IF indexOf(d.list, arg) = 0
         THEN [data |-> [d EXCEPT !.list = Append(d.list, arg)], syncs |-> TRUE, hit |-> FALSE]
         ELSE [data |-> d, syncs |-> FALSE, hit |-> TRUE]
    ELSE IF indexOf(d.list, arg) # 0
         THEN [data |-> [d EXCEPT !.list = splice(d.list, indexOf(d.list, arg))],
               syncs |-> TRUE, hit |-> TRUE]
         ELSE [data |-> d, syncs |-> TRUE, hit |-> FALSE]

\* Caller c calls setSecret, add or remove: the call runs up to its _sync.
begin(c, op, arg) ==
    /\ initialized
    /\ callers.pending[c] = Idle
    /\ CanRun(c)
    /\ op = "add" => (indexOf(data.list, arg) # 0 \/ Len(data.list) < MaxLen)
    /\ LET r == mutate(op, arg, data) IN
         /\ data' = r.data
         /\ IF r.syncs
            THEN /\ callers' = [callers EXCEPT
                        !.pending[c] = [op |-> op, arg |-> arg, stage |-> "sync", hit |-> r.hit],
                        !.running = IF syncIsBlocking THEN c ELSE "none"]
                 /\ UNCHANGED last
            ELSE /\ callers' = [callers EXCEPT !.running = "none", !.by = c]
                 /\ last' = Call(op, arg, "ok", NoSync(file, dirExists), "none", r.hit)
    /\ UNCHANGED <<initialized, locked, file, dirExists, addCalls, held, config, handle>>

\* The _sync of caller c's call runs and the call returns its result.
finish(c) ==
    /\ callers.pending[c].stage = "sync"
    /\ CanRun(c)
    /\ \E o \in FsOutcomes :
        LET s == sync(locked, data, file, dirExists, o)
            p == callers.pending[c]
        IN  /\ file' = s.file
            /\ dirExists' = s.dir
            /\ last' = Call(p.op, p.arg, s.res, s, "none", p.hit)
    /\ callers' = [callers EXCEPT !.pending[c] = Idle, !.running = "none", !.by = c]
    /\ UNCHANGED <<data, initialized, locked, addCalls, held, config, handle>>

\* init() at start-up, then the callers.
NextCallers ==
    \/ ~initialized /\ init
    \/ \E c \in Callers, secret \in Secrets : begin(c, "setSecret", secret)
    \/ \E c \in Callers, name \in Names : begin(c, "add", name)
    \/ \E c \in Callers, name \in Names : begin(c, "remove", name)
    \/ \E c \in Callers : finish(c)

SpecCallers == Init /\ [][NextCallers]_vars

TypeOK ==
    /\ initialized \in BOOLEAN
    /\ locked \in BOOLEAN
    /\ dirExists \in BOOLEAN
    /\ Len(data.list) <= MaxLen
    /\ data.secret \in Secrets
    /\ file.exists => dirExists

\* ---------------------------------------------------------------- properties
StoreOps == {"init", "setSecret", "add", "remove", "clean"}
MutatingOps == {"setSecret", "add", "remove"}

NoDuplicates(s) == \A i, j \in 1..Len(s) : s[i] = s[j] => i = j

\* s with its first occurrence of x deleted, s itself when x is not in it.
WithoutFirst(s, x) ==
    IF \E i \in 1..Len(s) : s[i] = x
    THEN LET i == CHOOSE k \in 1..Len(s) : s[k] = x /\ \A j \in 1..(k - 1) : s[j] # x
         IN  [k \in 1..(Len(s) - 1) |-> IF k < i THEN s[k] ELSE s[k + 1]]
    ELSE s

\* C1: once the store is locked (a load failed with an error other than
\* file-not-found), every setSecret, add and remove returns the locked-store
\* error to its caller, whatever the argument and whatever came before.
C1_LockAbsorption ==
    [][(locked /\ last'.op \in MutatingOps) => last'.res = "locked"]_vars

\* C2: a call on a store that is locked when its persist runs leaves the index
\* file and its directory exactly as they were; a corrupt file is never
\* replaced by the empty fallback index.
C2_LockedTouchesNothing ==
    [][(locked' /\ last'.op \in StoreOps) => (file' = file /\ dirExists' = dirExists)]_vars

\* C2 witness: a locked store has run clean() with names in memory and the
\* corrupt file is still on disk.
C2_Witness ==
    /\ locked
    /\ last.op = "clean"
    /\ data.list # <<>>
    /\ file.exists
    /\ ~WellFormed(file.text)

\* C3: locked is false at construction; it turns true only in an init() whose
\* load failed with an error other than file-not-found; once true it is true
\* in every later state.
C3_LockedFlag ==
    /\ ~locked
    /\ [][/\ locked => locked'
          /\ (~locked /\ locked') =>
                /\ last'.op = "init"
                /\ last'.load = "error"
                /\ last'.io = "none"]_vars

\* C3 witness: a locked store has run an init() that loaded the file
\* successfully and is still locked.
C3_Witness ==
    /\ locked
    /\ last.op = "init"
    /\ last.load = "ok"
    /\ data.list # <<>>

\* C4: after init() the in-memory list never holds a name twice.
C4_NoDuplicates ==
    initialized => NoDuplicates(data.list)

\* C5: an add that repeats the add before it changes nothing: the list and the
\* secret stay as the first add left them, the caller gets success, and no
\* mkdir and no write is made.
C5_AddIdempotent ==
    [][(last.op = "add" /\ last'.op = "add" /\ last'.arg = last.arg) =>
          /\ data' = data
          /\ last'.res = "ok"
          /\ last'.sync = "none"
          /\ last'.io = "none"
          /\ file' = file
          /\ dirExists' = dirExists]_vars

\* C5 witness: add(name) was called twice in a row on an unlocked store whose
\* first add could not be written.
C5_Witness ==
    /\ last.op = "add"
    /\ last.again
    /\ last.res = "ok"
    /\ ~locked
    /\ file # FileOf(JSONstringify(data))

\* C6: adds of pairwise distinct names to a store whose list was empty give a
\* list that is those names in call order; an add of a new name appends it and
\* an add of a present name leaves the list alone.
C6_OrderPreservation ==
    /\ [](addCalls.valid => get = addCalls.names)
    /\ [][last'.op = "add" =>
            data'.list = IF \E i \in 1..Len(data.list) : data.list[i] = last'.arg
                         THEN data.list
                         ELSE Append(data.list, last'.arg)]_vars

\* C6 witness: three distinct names were added to an empty list, not in
\* alphabetical order.
C6_Witness ==
    /\ addCalls.valid
    /\ addCalls.names = <<"c", "a", "b">>
    /\ get = <<"c", "a", "b">>

\* C7: remove(name) deletes the first occurrence of name and keeps the order
\* of the rest, leaves a list without name unchanged, always runs a persist
\* and hands the persist's outcome to the caller, which is success when the
\* write was made.
C7_RemovalCorrectness ==
    [][last'.op = "remove" =>
          /\ data'.list = WithoutFirst(data.list, last'.arg)
          /\ data'.secret = data.secret
          /\ last'.sync # "none"
          /\ last'.res = last'.sync
          /\ last'.io = "wrote" =>
                (last'.res = "ok" /\ file' = FileOf(JSONstringify(data')))]_vars

\* C7 witness: b was found and removed, a and c are left in order, the write
\* was made.
C7_Witness ==
    /\ last.op = "remove"
    /\ last.arg = "b"
    /\ last.hit
    /\ get = <<"a", "c">>
    /\ last.res = "ok"
    /\ last.io = "wrote"

\* C8: after a successful persist the file parses to the in-memory index
\* (same list, same order, same secret); an init() that follows loads exactly
\* that index, and its own write leaves the file as it was.
C8_RoundTrip ==
    /\ [](last.io = "wrote" =>
            /\ file.exists
            /\ WellFormed(file.text)
            /\ JSONparse(file.text) = data)
    /\ [][(last.io = "wrote" /\ last'.op = "init" /\ last'.load = "ok") =>
            /\ data' = data
            /\ last'.io = "wrote" => file' = file]_vars

\* C8 witness: an init() has loaded and rewritten a file that only the store
\* itself can have written.
C8_Witness ==
    /\ last.op = "init"
    /\ last.load = "ok"
    /\ last.io = "wrote"
    /\ get = <<"a", "b", "c">>
    /\ getSecret = "s1"
    /\ file = FileOf(JSONstringify(data))

\* C9: an init() that finds no index file succeeds, leaves the store unlocked
\* (a new store is unlocked after it), gives the empty list and the empty
\* secret, and what it writes is the empty index; mutations that are written
\* afterwards put the in-memory index into the file.
C9_FirstRun ==
    /\ [][(last'.op = "init" /\ last'.load = "missing") =>
            /\ ~file.exists
            /\ last'.res = "ok"
            /\ locked' = locked
            /\ ~initialized => ~locked'
            /\ data'.list = <<>>
            /\ data'.secret = ""
            /\ last'.io = "wrote" => file' = FileOf(JSONstringify(emptyDatabase))]_vars
    /\ []((last.op \in MutatingOps /\ last.io = "wrote") =>
            (~locked /\ file = FileOf(JSONstringify(data))))

\* C9 witness: the first init() found no file, the store is unlocked and
\* empty and the empty index is on disk.
C9_Witness ==
    /\ last.op = "init"
    /\ last.load = "missing"
    /\ ~locked
    /\ get = <<>>
    /\ getSecret = ""
    /\ last.io = "wrote"
    /\ file = FileOf(JSONstringify(emptyDatabase))

\* C10: when the write of a setSecret, add or remove fails, the caller gets
\* the write error; once the write step is reached, the caller gets success
\* exactly when the write was made.
C10_WriteErrorSurfaced ==
    (last.op \in MutatingOps /\ last.io \in {"wrote", "writeFailed"}) =>
        /\ last.io = "writeFailed" => last.res = "writeErr"
        /\ last.res = "ok" <=> last.io = "wrote"

\* C10 witness: an add of a new name on an unlocked store got the write error.
C10_Witness ==
    /\ last.op = "add"
    /\ ~last.hit
    /\ ~locked
    /\ last.io = "writeFailed"
    /\ last.res = "writeErr"

\* The names of the index a file holds (none when it is absent or unparseable).
FileNames(f) ==
    IF f.exists /\ WellFormed(f.text)
    THEN {JSONparse(f.text).list[i] : i \in 1..Len(JSONparse(f.text).list)}
    ELSE {}

\* C11: every call of the store either leaves the index file as it was or
\* replaces it with the complete serialization of the in-memory index; a
\* failed write leaves the previous file intact.
C11_NoPartialWrite ==
    [][last'.op \in StoreOps =>
          IF last'.io = "wrote"
          THEN file' = FileOf(JSONstringify(data'))
          ELSE file' = file]_vars

\* C14: setSecret assigns the in-memory secret, then persists the index that
\* holds it, and hands the persist's outcome to the caller; the secret is the
\* argument of that call whatever the outcome; init gives the loaded secret
\* (the empty one when nothing was loaded); no other call changes the secret.
C14_Secret ==
    [][/\ last'.op = "setSecret" =>
            /\ data'.secret = last'.arg
            /\ data'.list = data.list
            /\ last'.sync # "none"
            /\ last'.res = last'.sync
            /\ last'.io = "wrote" => file' = FileOf(JSONstringify(data'))
       /\ last'.op = "init" =>
            data'.secret = IF last'.load = "ok" THEN JSONparse(file.text).secret ELSE ""
       /\ last'.op \in {"add", "remove", "clean", "env"} =>
            data'.secret = data.secret]_vars

\* C14 witness: setSecret("s1") got the write error and getSecret() gives "s1".
C14_Witness ==
    /\ last.op = "setSecret"
    /\ last.arg = "s1"
    /\ last.res = "writeErr"
    /\ getSecret = "s1"

\* C15: when the mkdir of a setSecret, add or remove fails, the caller gets
\* success, no write is made, the file and the directory stay as they were
\* and the in-memory index holds the mutation.
C15_MkdirFailureIsSilent ==
    [][(last'.op \in MutatingOps /\ last'.mk = "failed") =>
          /\ ~locked
          /\ last'.res = "ok"
          /\ last'.io = "mkdirFailed"
          /\ file' = file
          /\ dirExists' = dirExists
          /\ last'.op = "setSecret" => data' = [data EXCEPT !.secret = last'.arg]
          /\ last'.op = "add" => data' = [data EXCEPT !.list = Append(data.list, last'.arg)]
          /\ last'.op = "remove" =>
                data' = [data EXCEPT !.list = WithoutFirst(data.list, last'.arg)]]_vars

\* C15 witness: an add whose mkdir failed reported success; the name is in
\* memory and there is no file at all.
C15_Witness ==
    /\ last.op = "add"
    /\ last.mk = "failed"
    /\ last.res = "ok"
    /\ ~last.hit
    /\ data.list # <<>>
    /\ ~file.exists

\* C16 as stated: after a failed mkdir the same persist goes on to the write
\* and the caller of a mutating call gets the outcome of that write.
C16_WriteFollowsMkdirError ==
    last.mk = "failed" =>
        /\ last.io \in {"wrote", "writeFailed"}
        /\ last.op \in MutatingOps =>
              last.res = IF last.io = "wrote" THEN "ok" ELSE "writeErr"

\* C16 as amended: a failed mkdir ends the persist at once: _sync returns
\* success, no write is made in that call and the file stays as it was, in
\* init and clean as well as in the mutating calls.
C16_MkdirErrorEndsPersist ==
    [][(last'.op \in StoreOps /\ last'.mk = "failed") =>
          /\ last'.sync = "ok"
          /\ last'.io = "mkdirFailed"
          /\ file' = file]_vars

\* C16 witness: the mkdir of clean() failed and the file on disk is not the
\* in-memory index.
C16_Witness ==
    /\ last.op = "clean"
    /\ last.mk = "failed"
    /\ last.sync = "ok"
    /\ file.exists
    /\ file # FileOf(JSONstringify(data))

\* C18: when add(name) got a write error and the add(name) that follows it on
\* the unlocked store returns success, the file holds name.
C18_RetryMakesDurable ==
    [][(/\ last.op = "add"
        /\ last.res = "writeErr"
        /\ last'.op = "add"
        /\ last'.arg = last.arg
        /\ last'.res = "ok"
        /\ ~locked) => last'.arg \in FileNames(file')]_vars

\* C19: on the healthy path of an unlocked store, after init() and after every
\* add, remove and setSecret, the file parses to the in-memory list and secret.
C19_MemoryDiskAgree ==
    (initialized /\ ~locked /\ last.op \in {"init"} \cup MutatingOps) =>
        /\ file.exists
        /\ WellFormed(file.text)
        /\ JSONparse(file.text).list = get
        /\ JSONparse(file.text).secret = getSecret

\* C19 witness: after a remove that found its name, memory and file hold the
\* same two names and the same secret.
C19_Witness ==
    /\ ~locked
    /\ last.op = "remove"
    /\ last.hit
    /\ get = <<"a", "c">>
    /\ getSecret = "s1"
    /\ JSONparse(file.text) = data

\* C13: the sequence a caller got from list() keeps the value it had when it
\* was handed out, whatever add and remove do to the store afterwards.
C13_ListIsSnapshot ==
    held.kind # "none" => heldValue = held.taken

\* C12: getPackageStorage(name) throws whenever config.storage is unset,
\* whatever the package spec says; otherwise it returns a driver bound to
\* join(resolve(configDir, root), name) when the package has no storage of its
\* own and to join(resolve(configDir, join(root, override)), name) when it
\* has; with root /data/storage that is /data/storage/left-pad, and
\* /data/storage/extra/left-pad under the override "extra".
C12_StoragePath ==
    handle.kind # "none" =>
        LET name == handle.name
            acc == config.packages[name]
            configDir == dirname(config.config_path)
            root == config.storage.path
        IN  /\ ~config.storage.set => handle.kind = "throws"
            /\ config.storage.set =>
                 /\ handle.kind = "driver"
                 /\ handle.path.abs
                 /\ (acc.match /\ acc.storage.set) =>
                       handle.path =
                           join(resolve(configDir, join(root, acc.storage.path)), NamePath(name))
                 /\ ~(acc.match /\ acc.storage.set) =>
                       handle.path = join(resolve(configDir, root), NamePath(name))
            /\ (root = Abs(<<"data", "storage">>) /\ config.storage.set /\ name = "left-pad") =>
                 /\ ~acc.match => handle.path = Abs(<<"data", "storage", "left-pad">>)
                 /\ acc = Match(Str(Rel(<<"extra">>))) =>
                       handle.path = Abs(<<"data", "storage", "extra", "left-pad">>)

\* C12 witness: with root /data/storage and the override "extra" the driver
\* of left-pad is bound to /data/storage/extra/left-pad.
C12_Witness ==
    /\ config.storage = Str(Abs(<<"data", "storage">>))
    /\ config.packages["left-pad"] = Match(Str(Rel(<<"extra">>)))
    /\ handle.name = "left-pad"
    /\ handle.kind = "driver"
    /\ handle.path = Abs(<<"data", "storage", "extra", "left-pad">>)

\* C17: while a mutating call is between its change of this.data and its
\* write, the only step taken is that call's own _sync; and when that _sync
\* has written the file, no call is half-way and the file is the in-memory
\* index with every change made so far.
C17_MutationsSerialized ==
    [][\A c \in Callers :
            callers.pending[c].stage = "sync" =>
                /\ callers'.pending = [callers.pending EXCEPT ![c] = Idle]
                /\ last'.io = "wrote" =>
                        /\ \A other \in Callers : callers'.pending[other] = Idle
                        /\ file' = FileOf(JSONstringify(data'))]_vars

\* C17 witness: c2's call has ended with a write and c1's call has changed
\* this.data and not yet written.
C17_Witness ==
    /\ callers.by = "c2"
    /\ last.io = "wrote"
    /\ callers.pending["c1"].stage = "sync"
    /\ callers.pending["c1"].op = "add"
    /\ Len(data.list) = 2

====
